---------------------------- MODULE Spec2Model ----------------------------
(***************************************************************************)
(* Model of the external-skill fetcher: the registry merge of              *)
(* scripts/marketplace_updater.py and the orchestrator of                  *)
(* scripts/fetch_external_skills.py.                                       *)
(*                                                                         *)
(* Three specifications share the variables:                               *)
(*   SpecMerge  - merge_plugins applied to arbitrary entry lists           *)
(*   SpecUpdate - sequences of update_marketplace_with_skills calls        *)
(*   Spec       - one SkillFetcher.run()                                   *)
(***************************************************************************)
EXTENDS Integers, Sequences, FiniteSets, TLC

VARIABLES
    \* ---- merge_plugins harness
    mA, mB,          \* the two entry lists under test
    mExisting,       \* existing_plugins of the last call
    mIncoming,       \* new_plugins of the last call
    mOut,            \* value returned by the last call
    mPrevOut,        \* value returned by the call before it
    mChain,          \* which lists were merged, in order, starting from []
    \* ---- registry file and its backup
    regFile,         \* content of marketplace.json
    backupFile,      \* content of marketplace.json.backup
    regBefore,       \* regFile when the last update was entered
    backupBefore,    \* backupFile when the last update was entered
    updResult,       \* what the last update returned, and what it was given
    regWrites,       \* number of times marketplace.json was opened for writing
    nUpdates,        \* number of update calls made
    \* ---- one SkillFetcher.run()
    pc,              \* where run() is: "start", "fetch", "finish", "done", "crashed"
    config,          \* self.config['skills']
    skill_ids,       \* the argument of run(): <<>> for None
    skills,          \* skills_to_fetch
    force, dry_run,  \* self.force, self.dry_run
    disk,            \* what each target folder under base_dir holds
    disk0,           \* disk when run() was entered
    temps,           \* positions whose temporary directory still exists
    idx,             \* position of the next skill in fetch_all_skills' loop
    stats,           \* self.stats
    skillMetadata,   \* fetch_all_skills' dict skill_metadata, by skill id
    outcome,         \* how fetch_skill ended for each position processed
    faults,          \* what the environment made fail: <<position, step>>
    extractCalls,    \* calls of self.fetcher.fetch_skill
    tempsCreated,    \* calls of tempfile.mkdtemp
    exitCode,        \* what run() returned: -1 while it runs
    \* ---- one call of update_marketplace_with_skills, with what it built
    eConfigs,        \* the argument skill_configs
    eMetadata,       \* the argument skill_metadata, by skill id
    eBuilt,          \* the list new_plugins of the call
    eCalled,         \* whether the call has been made
    \* ---- one GitHubFetcher and the host it talks to
    gTree,           \* the listing of the remote directory, nested
    gFailAt,         \* which content request fails, counted from 1; 0: none
    gQuota,          \* the answers of the rate_limit endpoint still to come
    gClock,          \* time.time()
    gLog,            \* the calls of wait_for_rate_limit_reset and the requests
    gRequests,       \* content requests issued so far
    gStaged,         \* the files written under target_dir
    gOp,             \* the last call made, and what it returned
    \* ---- one call of parse_github_url
    uRaw,            \* the URL's path, cut at every '/'
    uResult,         \* what the call returned or raised
    \* ---- one call of GitHubFetcher.fetch_skill (its URL is uRaw)
    sRepoType,       \* the argument repo_type
    sDefault,        \* what the repository endpoint reports: "fails" or a branch
    sFetch,          \* what the call did and returned
    \* ---- one call of validate_skill
    vDir,            \* what skill_path holds
    vResult          \* the result returned

mergeVars == <<mA, mB, mExisting, mIncoming, mOut, mPrevOut, mChain>>
regVars   == <<regFile, backupFile, regBefore, backupBefore, updResult,
               regWrites, nUpdates>>
runVars   == <<pc, config, skill_ids, skills, force, dry_run, disk, disk0,
               temps, idx, stats, skillMetadata, outcome, faults,
               extractCalls, tempsCreated, exitCode>>
entryVars == <<eConfigs, eMetadata, eBuilt, eCalled>>
ghVars    == <<gTree, gFailAt, gQuota, gClock, gLog, gRequests, gStaged, gOp>>
urlVars   == <<uRaw, uResult>>
skillVars == <<sRepoType, sDefault, sFetch>>
valVars   == <<vDir, vResult>>
restVars  == <<entryVars, ghVars, urlVars, skillVars, valVars>>
vars      == <<mergeVars, regVars, runVars, restVars>>

(***************************************************************************)
(* Bounds                                                                  *)
(***************************************************************************)
MaxLen == 2        \* longest entry list given to merge_plugins
MaxPlugins == 2    \* longest plugins list of an initial registry
MaxUpdates == 2    \* registry updates in a row
MaxSkills == 2     \* most skills in a configuration document
MaxDepth == 2      \* directories nested below the one fetched
MaxCalls == 2      \* calls of a GitHubFetcher method in a row
MaxSegments == 6   \* most pieces of a URL's path

(***************************************************************************)
(* Python values                                                           *)
(***************************************************************************)
None == "<None>"               \* dict.get() of a key that is absent

\* Python truthiness of a str-or-None value: None and '' are falsy.
Truthy(v) == v /= None /\ v /= ""

\* The code points of the names the model uses ('a' = 1, 'b' = 2).
Chars(s) ==
    CASE s = ""   -> <<>>
      [] s = "a"  -> <<1>>
      [] s = "ab" -> <<1, 2>>
      [] s = "b"  -> <<2>>

\* Python str comparison s < t: lexicographic by code point, a proper
\* prefix being smaller.
RECURSIVE SeqLess(_, _)
SeqLess(s, t) ==
    IF t = <<>> THEN FALSE
    ELSE IF s = <<>> THEN TRUE
    ELSE IF Head(s) /= Head(t) THEN Head(s) < Head(t)
    ELSE SeqLess(Tail(s), Tail(t))

StrLess(s, t) == SeqLess(Chars(s), Chars(t))

\* key=lambda p: p.get('name', '')
SortKey(p) == IF p.name = None THEN "" ELSE p.name

(***************************************************************************)
(* merge_plugins                                                           *)
(***************************************************************************)
\* plugins_dict is a Python dict: its values in insertion order, one per key.
DictKeys(d) == {d[i].name : i \in DOMAIN d}

\* A dict that keeps every value ever stored, like a list.
DictAppend(d, p) == Append(d, p)

\* plugins_dict[name] = plugin : a key already present keeps its place.
DictSet(d, p) ==
    IF p.name \in DictKeys(d)
    THEN [i \in DOMAIN d |-> IF d[i].name = p.name THEN p ELSE d[i]]
    ELSE Append(d, p)

\* for plugin in existing_plugins: if name: plugins_dict[name] = plugin
RECURSIVE AddExisting(_, _)
AddExisting(d, plugins) ==
    IF plugins = <<>> THEN d
    ELSE AddExisting(IF Truthy(Head(plugins).name)
                     THEN DictSet(d, Head(plugins)) ELSE d,
                     Tail(plugins))

\* A merge in which a new plugin overwrites the registered one.
RECURSIVE AddNewOverwriting(_, _)
AddNewOverwriting(d, plugins) ==
    IF plugins = <<>> THEN d
    ELSE AddNewOverwriting(IF Truthy(Head(plugins).name)
                           THEN DictSet(d, Head(plugins)) ELSE d,
                           Tail(plugins))

\* for plugin in new_plugins: if name: skip when name in plugins_dict
RECURSIVE AddNew(_, _)
AddNew(d, plugins) ==
    IF plugins = <<>> THEN d
    ELSE AddNew(IF Truthy(Head(plugins).name)
                     /\ Head(plugins).name \notin DictKeys(d)
                THEN Append(d, Head(plugins)) ELSE d,
                Tail(plugins))

\* Insert p into the sorted list s after every element not greater than it
\* (sorted() is stable).
RECURSIVE InsertSorted(_, _)
InsertSorted(s, p) ==
    IF s = <<>> THEN <<p>>
    ELSE IF StrLess(SortKey(p), SortKey(Head(s)))
         THEN <<p>> \o s
         ELSE <<Head(s)>> \o InsertSorted(Tail(s), p)

\* A merge that returns the dict's values in insertion order.
Unsorted(d) == d

RECURSIVE SortFrom(_, _)
SortFrom(acc, d) ==
    IF d = <<>> THEN acc ELSE SortFrom(InsertSorted(acc, Head(d)), Tail(d))

\* sorted(plugins_dict.values(), key=lambda p: p.get('name', ''))
sorted(d) == SortFrom(<<>>, d)

merge_plugins(existing_plugins, new_plugins) ==
    sorted(AddNew(AddExisting(<<>>, existing_plugins), new_plugins))


(***************************************************************************)
(* Registry file: load, schema, entry construction, save, update           *)
(***************************************************************************)
\* What a path holds.  Only kind "doc" carries a JSON object: top tells
\* whether the required top-level keys other than "plugins" are all there
\* and well typed, plugins_key whether the key "plugins" is present.
File(kind) == [kind |-> kind, top |-> "", plugins_key |-> FALSE, plugins |-> <<>>]
Doc(top, plugins) ==
    [kind |-> "doc", top |-> top, plugins_key |-> TRUE, plugins |-> plugins]

NoFile    == File("no file")          \* the path does not exist
Malformed == File("not JSON")         \* json.load raises
EmptyDoc  == File("falsy JSON")       \* {} , [] , null : parses, and is falsy
NonObject == File("JSON non-object")  \* parses, is truthy, has no .get
Truncated == File("truncated")        \* left behind by a write that failed midway
NoData    == File("None")             \* load_marketplace's None

\* load_marketplace: the parsed data, or None on any error.
load_marketplace(file) ==
    IF file \in {NoFile, Malformed, Truncated} THEN NoData ELSE file

\* MARKETPLACE_SCHEMA: the required top-level keys, and in every plugin the
\* four required string keys.
validate_marketplace_schema(data) ==
    /\ data.top = "ok"
    /\ data.plugins_key
    /\ \A i \in DOMAIN data.plugins :
          /\ data.plugins[i].name /= None
          /\ data.plugins[i].description /= None
          /\ data.plugins[i].source /= None
          /\ data.plugins[i].category /= None

\* f"./{skill_config['target_folder']}"
RelPath(target_folder) ==
    CASE target_folder = "ta" -> "./ta"
      [] target_folder = "tb" -> "./tb"

\* A metadata argument that is None (or an empty dict): every key absent.
NoMetadata == [name |-> None, description |-> None, category |-> None]

\* An entry whose description is always the config's.
EntryIgnoringMetadata(skill_config, metadata) ==
    [name        |-> skill_config.id,
     description |-> IF skill_config.description = None
                     THEN "" ELSE skill_config.description,
     source      |-> RelPath(skill_config.target_folder),
     category    |-> IF skill_config.category = None
                     THEN "development" ELSE skill_config.category]

create_marketplace_entry(skill_config, metadata) ==
    [name        |-> skill_config.id,
     description |-> IF metadata /= NoMetadata /\ Truthy(metadata.description)
                     THEN metadata.description
                     ELSE IF skill_config.description = None
                          THEN "" ELSE skill_config.description,
     source      |-> RelPath(skill_config.target_folder),
     category    |-> IF skill_config.category = None
                     THEN "development" ELSE skill_config.category]

\* skill_metadata.get(skill_id)
MetadataGet(skill_metadata, skill_id) ==
    IF skill_id \in DOMAIN skill_metadata
    THEN skill_metadata[skill_id] ELSE NoMetadata

\* new_plugins: one entry per config handed in, in order.
NewPlugins(skill_configs, skill_metadata) ==
    [i \in DOMAIN skill_configs |->
        create_marketplace_entry(skill_configs[i],
                                 MetadataGet(skill_metadata, skill_configs[i].id))]

\* The list new_plugins of an update of this file: nothing is built when
\* the load fails.
BuiltEntries(file, skill_configs, skill_metadata) ==
    IF load_marketplace(file) \in {NoData, EmptyDoc, NonObject}
    THEN <<>>
    ELSE NewPlugins(skill_configs, skill_metadata)

\* The outcome of a call that returned False before touching a file.
Unwritten(file, backup) ==
    [ok |-> FALSE, regFile |-> file, backupFile |-> backup, writes |-> 0]

\* A save that writes the new document first and copies the backup after.
SaveThenBackup(file, backup, data, env) ==
    IF env.write = "open fails"
    THEN Unwritten(file, backup)
    ELSE IF env.write = "dump fails"
    THEN [ok |-> FALSE, regFile |-> Truncated, backupFile |-> backup,
          writes |-> 1]
    ELSE [ok |-> env.backup = "ok", regFile |-> data,
          backupFile |-> IF env.backup = "ok" THEN data ELSE backup,
          writes |-> 1]

\* save_marketplace with create_backup=True: backup_file copies the file to
\* <path>.backup, then the file is opened for writing and dumped.  Any
\* exception ends the save with False.
save_marketplace(file, backup, data, env) ==
    IF file /= NoFile /\ env.backup /= "ok"
    THEN Unwritten(file, backup)
    ELSE LET copied == IF file /= NoFile THEN file ELSE backup
         IN  IF env.write = "open fails"
             THEN [ok |-> FALSE, regFile |-> file, backupFile |-> copied,
                   writes |-> 0]
             ELSE IF env.write = "dump fails"
             THEN [ok |-> FALSE, regFile |-> Truncated, backupFile |-> copied,
                   writes |-> 1]
             ELSE [ok |-> TRUE, regFile |-> data, backupFile |-> copied,
                   writes |-> 1]

\* The document after the merge: marketplace['plugins'] = merged_plugins.
Updated(marketplace, skill_configs, skill_metadata) ==
    [marketplace EXCEPT
        !.plugins_key = TRUE,
        !.plugins = merge_plugins(marketplace.plugins,
                                  NewPlugins(skill_configs, skill_metadata))]

\* An update that saves the merged document without validating it.
UpdateUnvalidated(file, backup, skill_configs, skill_metadata, env) ==
    LET marketplace == load_marketplace(file)
    IN  IF marketplace \in {NoData, EmptyDoc, NonObject}
        THEN Unwritten(file, backup)
        ELSE save_marketplace(file, backup,
                 Updated(marketplace, skill_configs, skill_metadata), env)

update_marketplace_with_skills(file, backup, skill_configs, skill_metadata, env) ==
    LET marketplace == load_marketplace(file)
    IN  IF marketplace = NoData \/ marketplace = EmptyDoc
        THEN Unwritten(file, backup)              \* "Failed to load marketplace"
        ELSE IF marketplace = NonObject
        THEN Unwritten(file, backup)              \* .get raises, caught at 256
        ELSE LET updated == Updated(marketplace, skill_configs, skill_metadata)
             IN  IF ~validate_marketplace_schema(updated)
                 THEN Unwritten(file, backup)
                 ELSE save_marketplace(file, backup, updated, env)

(***************************************************************************)
(* Package validator (skill_processor.py)                                  *)
(***************************************************************************)
MinPlausibleSize == 50

\* SKILL.md: its size in bytes, whether its header block parses, and the
\* header's name and description (None when the key is absent).
NoManifest ==
    [exists |-> FALSE, size |-> 0, parses |-> FALSE,
     name |-> None, description |-> None]
Manifest(size, parses, name, description) ==
    [exists |-> TRUE, size |-> size, parses |-> parses,
     name |-> IF parses THEN name ELSE None,
     description |-> IF parses THEN description ELSE None]

\* What a path holds: nothing, a plain file, or a directory.
Absent == [state |-> "absent", origin |-> "", manifest |-> NoManifest]
Dir(origin, manifest) ==
    [state |-> "dir", origin |-> origin, manifest |-> manifest]

\* A header mapping; is_none tells Python's None from a dict.
NoneHeader  == [is_none |-> TRUE,  name |-> None, description |-> None]
EmptyHeader == [is_none |-> FALSE, name |-> None, description |-> None]

\* A parser that gives None for a header it cannot parse.
ParseOrNone(manifest) ==
    IF manifest.parses
    THEN [is_none |-> FALSE, name |-> manifest.name,
          description |-> manifest.description]
    ELSE NoneHeader

\* parse_skill_frontmatter: the header's mapping, {} on any exception.
parse_skill_frontmatter(manifest) ==
    IF manifest.parses
    THEN [is_none |-> FALSE, name |-> manifest.name,
          description |-> manifest.description]
    ELSE EmptyHeader

\* A result that is invalid without saying why.
RejectedSilently(error) ==
    [valid |-> FALSE, errors |-> <<>>, warnings |-> <<>>,
     metadata |-> NoneHeader]

Rejected(error) ==
    [valid |-> FALSE, errors |-> <<error>>, warnings |-> <<>>,
     metadata |-> NoneHeader]

\* A check of the required fields that looks at the name only.
MissingName(metadata) ==
    IF Truthy(metadata.name) THEN <<>>
    ELSE <<"Missing 'name' in frontmatter">>

\* The warnings for required fields the header lacks.
MissingFields(metadata) ==
    (IF Truthy(metadata.name) THEN <<>>
     ELSE <<"Missing 'name' in frontmatter">>)
    \o (IF Truthy(metadata.description) THEN <<>>
        ELSE <<"Missing 'description' in frontmatter">>)

\* No call of validate_skill yet.
NotValidated ==
    [called |-> FALSE, valid |-> FALSE, errors |-> <<>>, warnings |-> <<>>,
     metadata |-> NoneHeader]

validate_skill(dir) ==
    IF dir.state = "absent" THEN Rejected("Directory does not exist")
    ELSE IF dir.state /= "dir" THEN Rejected("Path is not a directory")
    ELSE IF ~dir.manifest.exists THEN Rejected("SKILL.md not found")
    ELSE LET metadata == parse_skill_frontmatter(dir.manifest)
             missing == MissingFields(metadata)
         IN  IF dir.manifest.size = 0
             THEN [valid |-> FALSE, errors |-> <<"SKILL.md is empty">>,
                   warnings |-> missing, metadata |-> metadata]
             ELSE [valid |-> TRUE, errors |-> <<>>,
                   warnings |-> missing
                       \o (IF dir.manifest.size < MinPlausibleSize
                           THEN <<"SKILL.md is very small">> ELSE <<>>),
                   metadata |-> metadata]

normalize_skill_metadata(skill_config, parsed_metadata) ==
    [name        |-> skill_config.id,
     description |-> IF Truthy(parsed_metadata.description)
                     THEN parsed_metadata.description
                     ELSE IF skill_config.description = None
                          THEN "" ELSE skill_config.description,
     category    |-> IF skill_config.category = None
                     THEN "" ELSE skill_config.category]

(***************************************************************************)
(* SkillFetcher.fetch_skill                                                *)
(***************************************************************************)
\* What self.fetcher.fetch_skill leaves in the temporary directory.
Fetched(skill_id, extract) ==
    CASE extract = "full" ->
            Dir(skill_id, Manifest(100, TRUE, "n", "md"))
      [] extract = "no description" ->
            Dir(skill_id, Manifest(100, TRUE, "n", None))
      [] OTHER -> Dir(skill_id, NoManifest)

\* A target that shutil.move left half copied.
PartlyMoved == Dir("partial", NoManifest)

\* A failure whose finally clause removes nothing.
FetchFailedLeavingTemp(st, i, skill_id, cause, cleanup) ==
    [st EXCEPT
        !.returned = "False",
        !.state = "failed",
        !.stats.errors = Append(@, <<skill_id, cause>>),
        !.stats.failed = @ + 1,
        !.temps = @ \cup {i}]

\* How fetch_skill ends once the temporary directory exists: the except
\* clause records the error; the finally clause removes the directory, and
\* a failure of that removal is logged and ignored.
FetchFailed(st, i, skill_id, cause, cleanup) ==
    [st EXCEPT
        !.returned = "False",
        !.state = "failed",
        !.stats.errors = Append(@, <<skill_id, cause>>),
        !.stats.failed = @ + 1,
        !.temps = IF cleanup = "fails" THEN @ \cup {i} ELSE @,
        !.faults = IF cleanup = "fails" THEN @ \cup {<<i, "cleanup">>} ELSE @]

\* A skip that counts the skill as fetched too.
SkipCountedAsFetched(st) ==
    [st EXCEPT !.returned = "True", !.state = "skipped-exists",
               !.stats.skipped = @ + 1, !.stats.successful = @ + 1]

\* "Skill already exists, skipping"
SkipExisting(st) ==
    [st EXCEPT !.returned = "True", !.state = "skipped-exists",
               !.stats.skipped = @ + 1]

\* A failure that leaves the temporary directory behind.
FetchFailedNoCleanup(st, i, skill_id, env) ==
    [FetchFailed(st, i, skill_id, "GitHub fetch failed", env.cleanup)
        EXCEPT !.temps = st.temps \cup {i}]

\* raise Exception("GitHub fetch failed")
ExtractionFailed(st, i, skill_id, env) ==
    FetchFailed(st, i, skill_id, "GitHub fetch failed", env.cleanup)

\* A validation that runs after the existing target was removed.
ValidationFailedAfterRemoval(st, i, skill_config, env) ==
    FetchFailed([st EXCEPT !.disk[skill_config.target_folder] = Absent],
                i, skill_config.id, "Validation failed", env.cleanup)

\* raise Exception(f"Validation failed: {errors}")
ValidationFailed(st, i, skill_config, env) ==
    FetchFailed(st, i, skill_config.id, "Validation failed", env.cleanup)

\* A dry run that stages the skill like a real one.
WouldFetchStaging(st, i) ==
    [st EXCEPT !.returned = "True", !.state = "dry-run",
               !.tempsCreated = @ + 1, !.temps = @ \cup {i}]

\* "[DRY RUN] Would fetch": success, and nothing done.
WouldFetch(st, i) ==
    [st EXCEPT !.returned = "True", !.state = "dry-run"]

\* fetch_skill for the skill at position i, under what the environment does
\* (env) to mkdtemp, the fetch, rmtree of the target, the move and the cleanup.
fetch_skill(skill_config, i, env, st) ==
    LET skill_id == skill_config.id
        target   == skill_config.target_folder
        exists   == st.disk[target].state /= "absent"
        staged   == [st EXCEPT !.tempsCreated = @ + 1,
                               !.extractCalls = @ + 1]
        fetched  == Fetched(skill_id, env.extract)
        Fault(s, step) == [s EXCEPT !.faults = @ \cup {<<i, step>>}]
    IN  IF exists /\ ~force
        THEN SkipExisting(st)
        ELSE IF dry_run
        THEN WouldFetch(st, i)
        ELSE IF env.mkdtemp = "fails"
        THEN [Fault(st, "mkdtemp") EXCEPT !.returned = "raise",
                                          !.state = "raised"]
        ELSE IF env.extract = "fails"
        THEN ExtractionFailed(Fault(staged, "extract"), i, skill_id, env)
        ELSE IF ~validate_skill(fetched).valid
        THEN ValidationFailed(staged, i, skill_config, env)
        ELSE IF exists /\ env.rmtree = "fails"
        THEN FetchFailed(Fault(staged, "rmtree"), i, skill_id,
                         "rmtree failed", env.cleanup)
        ELSE IF env.move /= "ok"
        THEN FetchFailed(
                 [Fault(staged, "move") EXCEPT !.disk[target] =
                     IF env.move = "partial" THEN PartlyMoved ELSE Absent],
                 i, skill_id, "move failed", env.cleanup)
        ELSE [staged EXCEPT !.returned = "True",
                            !.state = "fetched-and-registered",
                            !.disk[target] = fetched,
                            !.stats.successful = @ + 1]

(***************************************************************************)
(* GitHubFetcher (github_fetcher.py)                                       *)
(***************************************************************************)
LowWater == 10           \* if remaining < 10
Margin == 5              \* ... + 5
DefaultRemaining == 100  \* rate.get('remaining', 100)

Max(a, b) == IF a >= b THEN a ELSE b

\* What the rate_limit endpoint answers: a failure of the request (or of
\* decoding it), or the 'rate' object.
RateFailure == [ok |-> FALSE, remaining |-> 0, reset |-> 0]
Rate(remaining, reset) == [ok |-> TRUE, remaining |-> remaining, reset |-> reset]

\* The empty dict check_rate_limit returns on any exception.
NoRate == [empty |-> TRUE, remaining |-> DefaultRemaining, reset |-> 0]

\* A quota check whose failure counts as an exhausted quota.
CheckFailureAsExhausted(response) ==
    IF response.ok
    THEN [empty |-> FALSE, remaining |-> response.remaining,
          reset |-> response.reset]
    ELSE [empty |-> FALSE, remaining |-> 0, reset |-> 0]

\* check_rate_limit: data['rate'], or {} when anything raises.
check_rate_limit(response) ==
    IF response.ok
    THEN [empty |-> FALSE, remaining |-> response.remaining,
          reset |-> response.reset]
    ELSE NoRate

\* An entry of the log: a call of wait_for_rate_limit_reset with the answer
\* it got, when it was entered and when it returned; or a content request.
Throttle(response, at, until) ==
    [ev |-> "throttle", path |-> <<>>, response |-> response,
     at |-> at, until |-> until]
Request(kind, path, at) ==
    [ev |-> kind, path |-> path, response |-> RateFailure,
     at |-> at, until |-> at]

\* A fetcher in the middle of a call: the host's state and what was done.
\* The answer to a quota check is the next of st.quota, a full quota when
\* none is left.
NextResponse(st) ==
    IF st.quota = <<>> THEN Rate(DefaultRemaining, 0) ELSE Head(st.quota)

\* How long wait_for_rate_limit_reset sleeps, forgetting the margin.
SleepWithoutMargin(rate, now) ==
    IF rate.empty THEN 0
    ELSE IF rate.remaining < LowWater
    THEN Max(0, rate.reset - now)
    ELSE 0

\* time.sleep(max(0, reset_time - time.time()) + 5) when remaining < 10
SleepTime(rate, now) ==
    IF rate.empty THEN 0
    ELSE IF rate.remaining < LowWater
    THEN Max(0, rate.reset - now) + Margin
    ELSE 0

wait_for_rate_limit_reset(st) ==
    LET response == NextResponse(st)
        until == st.clock + SleepTime(check_rate_limit(response), st.clock)
    IN  [st EXCEPT !.quota = IF @ = <<>> THEN @ ELSE Tail(@),
                   !.clock = until,
                   !.log = Append(@, Throttle(response, st.clock, until))]

\* self.session.get(...) of the archive, a listing or a file.
Get(st, kind, path) ==
    [st EXCEPT !.requests = @ + 1,
               !.log = Append(@, Request(kind, path, st.clock))]

\* raise_for_status() raised on the request just made.
Raised(st) == st.requests = st.failAt

\* What a method returns, with the state it leaves.
Returns(st, ok) == [st |-> st, ok |-> ok]

\* self._fetch_contents_recursive(...) for a directory: its return value is
\* not looked at.
NestedFailureIgnored(inner, rest) == rest

\* response = self.session.get(url) of the contents endpoint
List(st, path) == Get(st, "list", path)

RECURSIVE _fetch_contents_recursive(_, _, _)
RECURSIVE FetchItems(_, _, _)

\* for item in contents: a file is downloaded after a quota check and
\* written; a directory is created and traversed.  An exception ends the
\* loop with False.
FetchItems(items, path, st) ==
    IF items = <<>> THEN Returns(st, TRUE)
    ELSE LET item == Head(items)
             item_path == Append(path, item.name)
         IN  IF item.type = "file"
             THEN LET got == Get(wait_for_rate_limit_reset(st), "file", item_path)
                  IN  IF Raised(got) THEN Returns(got, FALSE)
                      ELSE FetchItems(Tail(items), path,
                               [got EXCEPT !.staged = @ \cup {item_path}])
             ELSE LET inner == _fetch_contents_recursive(item.children,
                                                         item_path, st)
                  IN  NestedFailureIgnored(inner,
                          FetchItems(Tail(items), path, inner.st))

_fetch_contents_recursive(listing, path, st) ==
    LET listed == List(st, path)
    IN  IF Raised(listed) THEN Returns(listed, FALSE)
        ELSE FetchItems(listing, path, listed)

\* fetch_subfolder: one quota check, then the traversal.
fetch_subfolder(listing, st) ==
    _fetch_contents_recursive(listing, <<>>, wait_for_rate_limit_reset(st))

\* The files of a tree, by path.
RECURSIVE AllFiles(_, _)
AllFiles(items, path) ==
    IF items = <<>> THEN {}
    ELSE LET item == Head(items)
         IN  (IF item.type = "file" THEN {Append(path, item.name)}
              ELSE AllFiles(item.children, Append(path, item.name)))
             \cup AllFiles(Tail(items), path)

\* fetch_standalone_repo: one quota check, the download of the archive, and
\* the extraction of its members.
fetch_standalone_repo(listing, st) ==
    LET got == Get(wait_for_rate_limit_reset(st), "archive", <<>>)
    IN  IF Raised(got) THEN Returns(got, FALSE)
        ELSE Returns([got EXCEPT !.staged = @ \cup AllFiles(listing, <<>>)],
                     TRUE)

\* No call made yet.
NoOp == [name |-> "none", ok |-> FALSE]

(***************************************************************************)
(* parse_github_url (utils.py)                                             *)
(***************************************************************************)
\* The path of a URL is modelled by its pieces between the '/' characters,
\* parsed.path.split('/'): a leading, trailing or doubled '/' gives an
\* empty piece.

\* A split that keeps the empty pieces.
AllParts(raw) == raw

\* [p for p in parsed.path.split('/') if p]
path_parts(raw) == SelectSeq(raw, LAMBDA p : p /= "")

\* subfolder_path: None, or the pieces that '/'.join puts together.
NoPath == [none |-> TRUE, parts |-> <<>>]

\* A join that starts with a '/'.
JoinedAfterSlash(parts) == [none |-> FALSE, parts |-> <<"">> \o parts]

Joined(parts) == [none |-> FALSE, parts |-> parts]

InvalidUrl ==
    [called |-> TRUE, raised |-> TRUE, owner |-> "", repo |-> "",
     branch |-> "", subfolder_path |-> NoPath]

NotParsed ==
    [called |-> FALSE, raised |-> FALSE, owner |-> "", repo |-> "",
     branch |-> "", subfolder_path |-> NoPath]

parse_github_url(raw) ==
    LET parts == path_parts(raw)
        tree  == Len(parts) > 3 /\ parts[3] = "tree"
    IN  IF Len(parts) < 2 THEN InvalidUrl
        ELSE [called |-> TRUE, raised |-> FALSE,
              owner |-> parts[1], repo |-> parts[2],
              branch |-> IF tree THEN parts[4] ELSE "main",
              subfolder_path |->
                  IF tree /\ Len(parts) > 4
                  THEN Joined(SubSeq(parts, 5, Len(parts)))
                  ELSE NoPath]

(***************************************************************************)
(* GitHubFetcher.fetch_skill (github_fetcher.py)                           *)
(***************************************************************************)
\* A lookup that hands on whatever the request gave.
DefaultBranchUnguarded(answer) == answer

\* get_default_branch: the branch the repository endpoint reports, 'main'
\* when the request fails.
get_default_branch(answer) == IF answer = "fails" THEN "main" ELSE answer

\* No call of GitHubFetcher.fetch_skill yet.
NoFetch ==
    [called |-> FALSE, queried |-> FALSE, branch |-> "", strategy |-> "",
     ok |-> FALSE]

\* What GitHubFetcher.fetch_skill did: whether it asked for the default
\* branch, the branch and the strategy it fetched with, and what it
\* returned; with the state it leaves.
Retrieved(queried, branch, strategy, r) ==
    [st |-> r.st,
     did |-> [called |-> TRUE, queried |-> queried, branch |-> branch,
              strategy |-> strategy, ok |-> r.ok]]

\* GitHubFetcher.fetch_skill: the URL is parsed; without a subfolder path
\* the default branch is asked for; a standalone repository, or a URL
\* without a subfolder path, is fetched whole, anything else by traversal.
fetcher_fetch_skill(raw, repo_type, answer, listing, st) ==
    LET parsed == parse_github_url(raw)
        no_subfolder == parsed.subfolder_path.none
        branch == IF no_subfolder THEN get_default_branch(answer)
                  ELSE parsed.branch
    IN  IF parsed.raised
        THEN Retrieved(FALSE, "", "", Returns(st, FALSE))
        ELSE IF repo_type = "standalone" \/ no_subfolder
        THEN Retrieved(no_subfolder, branch, "fetch_standalone_repo",
                       fetch_standalone_repo(listing, st))
        ELSE Retrieved(no_subfolder, branch, "fetch_subfolder",
                       fetch_subfolder(listing, st))

(***************************************************************************)
(* Inputs                                                                  *)
(***************************************************************************)
SeqsUpTo(S, n) == UNION {[1..k -> S] : k \in 0..n}

Range(s) == {s[i] : i \in DOMAIN s}

Entry(name, description) ==
    [name |-> name, description |-> description,
     source |-> "./ta", category |-> "tools"]

\* Entries given to merge_plugins: an empty name, one name twice with
\* different content, and names whose order is not their order of appearance.
MergeEntries ==
    {Entry("", "d1"), Entry("a", "d1"), Entry("a", "d2"),
     Entry("ab", "d1"), Entry("b", "d1")}

MergeLists == SeqsUpTo(MergeEntries, MaxLen)

\* Entries of a registry found on disk: a name twice, an entry without a
\* name, and an entry without a description (which the schema rejects).
RegEntries ==
    {Entry("a", "old"), Entry("a", "older"),
     Entry(None, "old"), Entry("ab", None)}

OldBackup == File("an earlier backup")

RegistryFiles ==
    {NoFile, Malformed, EmptyDoc, NonObject}
        \cup {Doc(t, p) : t \in {"ok", "incomplete"},
                          p \in SeqsUpTo(RegEntries, MaxPlugins)}
        \cup {[Doc("ok", <<>>) EXCEPT !.plugins_key = FALSE]}

\* PackageConfig objects of the configuration document.  "b" has neither
\* description nor category; "ab" has the target folder of "a".
SkA  == [id |-> "a",  target_folder |-> "ta", description |-> "cfg a",
         category |-> "tools"]
SkB  == [id |-> "b",  target_folder |-> "tb", description |-> None,
         category |-> None]
SkAB == [id |-> "ab", target_folder |-> "ta", description |-> "cfg ab",
         category |-> "tools"]
Skills == {SkA, SkB, SkAB}

\* What normalize_skill_metadata returns, for a header description d.
Metadata(id, d) == [name |-> id, description |-> d, category |-> ""]

\* What the environment does to a save.
SaveEnvs == [backup : {"ok", "fails"}, write : {"ok", "open fails", "dump fails"}]

NoCall == [called |-> FALSE, ok |-> FALSE, backup |-> "ok", write |-> "ok"]

(***************************************************************************)
(* SpecMerge: merge_plugins on arbitrary lists                             *)
(***************************************************************************)
RegIdle ==
    /\ regFile = NoFile /\ backupFile = NoFile
    /\ regBefore = NoFile /\ backupBefore = NoFile
    /\ updResult = NoCall /\ regWrites = 0 /\ nUpdates = 0

NoStats == [total |-> 0, successful |-> 0, failed |-> 0, skipped |-> 0,
            errors |-> <<>>]

NoMetadataYet == [id \in {} |-> NoMetadata]

Targets == {"ta", "tb"}

RunIdle ==
    /\ pc = "idle" /\ config = <<>> /\ skill_ids = <<>> /\ skills = <<>>
    /\ force = FALSE /\ dry_run = FALSE
    /\ disk = [t \in Targets |-> Absent] /\ disk0 = disk
    /\ temps = {} /\ idx = 1 /\ stats = NoStats
    /\ skillMetadata = NoMetadataYet /\ outcome = <<>> /\ faults = {}
    /\ extractCalls = 0 /\ tempsCreated = 0 /\ exitCode = -1

EntryIdle ==
    /\ eConfigs = <<>> /\ eMetadata = NoMetadataYet
    /\ eBuilt = <<>> /\ eCalled = FALSE

GhIdle ==
    /\ gTree = <<>> /\ gFailAt = 0 /\ gQuota = <<>> /\ gClock = 0
    /\ gLog = <<>> /\ gRequests = 0 /\ gStaged = {} /\ gOp = NoOp

UrlIdle == uRaw = <<>> /\ uResult = NotParsed

SkillIdle == sRepoType = "" /\ sDefault = "" /\ sFetch = NoFetch

ValIdle == vDir = Absent /\ vResult = NotValidated

RestIdle == EntryIdle /\ GhIdle /\ UrlIdle /\ SkillIdle /\ ValIdle

MergeIdle ==
    /\ mA = <<>> /\ mB = <<>> /\ mExisting = <<>> /\ mIncoming = <<>>
    /\ mOut = <<>> /\ mPrevOut = <<>> /\ mChain = <<>>

InitMerge ==
    /\ mA \in MergeLists /\ mB \in MergeLists
    /\ mExisting = <<>> /\ mIncoming = <<>>
    /\ mOut = <<>> /\ mPrevOut = <<>> /\ mChain = <<>>
    /\ RegIdle /\ RunIdle /\ RestIdle

ListOf(label) == IF label = "A" THEN mA ELSE mB

\* merge_plugins(existing, incoming), each one of the two lists.
MergeTwo ==
    /\ mChain = <<>>
    /\ \E i \in {"A", "B"} :
          /\ mExisting' = mA
          /\ mIncoming' = ListOf(i)
          /\ mOut' = merge_plugins(mA, ListOf(i))
    /\ mPrevOut' = mOut
    /\ mChain' = <<"raw">>
    /\ UNCHANGED <<mA, mB, regVars, runVars, restVars>>

\* merge_plugins([], A): the start of a chain of merges.
MergeFresh ==
    /\ mChain = <<>>
    /\ mExisting' = <<>>
    /\ mIncoming' = mA
    /\ mOut' = merge_plugins(<<>>, mA)
    /\ mPrevOut' = mOut
    /\ mChain' = <<"A">>
    /\ UNCHANGED <<mA, mB, regVars, runVars, restVars>>

\* merge_plugins(previous result, A or B): the chain goes on.
MergeNext ==
    /\ mChain /= <<>> /\ mChain /= <<"raw">> /\ Len(mChain) < 3
    /\ \E i \in {"A", "B"} :
          /\ mExisting' = mOut
          /\ mIncoming' = ListOf(i)
          /\ mOut' = merge_plugins(mOut, ListOf(i))
          /\ mChain' = Append(mChain, i)
    /\ mPrevOut' = mOut
    /\ UNCHANGED <<mA, mB, regVars, runVars, restVars>>

NextMerge == MergeTwo \/ MergeFresh \/ MergeNext

SpecMerge == InitMerge /\ [][NextMerge]_vars

(***************************************************************************)
(* SpecUpdate: update_marketplace_with_skills, called again and again      *)
(***************************************************************************)
InitUpdate ==
    /\ regFile \in RegistryFiles
    /\ backupFile \in {NoFile, OldBackup}
    /\ regBefore = regFile /\ backupBefore = backupFile
    /\ updResult = NoCall /\ regWrites = 0 /\ nUpdates = 0
    /\ MergeIdle /\ RunIdle /\ RestIdle

\* The header description normalize_skill_metadata finds for a package:
\* the manifest of "b" has none.
HeaderDescription(id) ==
    CASE id = "a" -> "md a" [] id = "b" -> "" [] id = "ab" -> "md ab"

\* The arguments of a call: configs without a repeated id, metadata for some
\* of them, and what the environment does to the save.
UpdateArgs ==
    {<<c, D, e>> \in SeqsUpTo(Skills, MaxSkills) \X (SUBSET {"a", "b", "ab"}) \X SaveEnvs :
        /\ \A i, j \in DOMAIN c : c[i].id = c[j].id => i = j
        /\ D \subseteq {c[i].id : i \in DOMAIN c}
        /\ e.backup = "fails" => e.write = "ok"}

ApplyUpdate(skill_configs, skill_metadata, env) ==
    \E r \in {update_marketplace_with_skills(regFile, backupFile,
                                             skill_configs, skill_metadata,
                                             env)} :
        /\ regFile' = r.regFile
        /\ backupFile' = r.backupFile
        /\ regBefore' = regFile
        /\ backupBefore' = backupFile
        /\ updResult' = [called |-> TRUE, ok |-> r.ok,
                         backup |-> env.backup, write |-> env.write]
        /\ regWrites' = regWrites + r.writes
        /\ nUpdates' = nUpdates + 1

UpdateCall ==
    /\ nUpdates < MaxUpdates
    /\ \E args \in UpdateArgs :
          ApplyUpdate(args[1],
                      [id \in args[2] |-> Metadata(id, HeaderDescription(id))],
                      args[3])
    /\ UNCHANGED <<mergeVars, runVars, restVars>>

NextUpdate == UpdateCall

SpecUpdate == InitUpdate /\ [][NextUpdate]_vars

(***************************************************************************)
(* Spec: one SkillFetcher.run()                                            *)
(***************************************************************************)
\* Configuration documents: no id twice, at most MaxSkills skills.
Configs ==
    {c \in SeqsUpTo(Skills, MaxSkills) :
        \A i, j \in DOMAIN c : c[i].id = c[j].id => i = j}

\* A target folder left by an earlier run.
OldDir == Dir("old", Manifest(100, TRUE, "n", "old md"))

\* Registry files a run may find.
RunRegistries ==
    {NoFile, Doc("incomplete", <<>>), Doc("ok", <<>>),
     Doc("ok", <<Entry("a", "old")>>)}

\* What the environment does during one fetch_skill: each record names the
\* first step that fails, if any, and whether the cleanup then fails too.
FetchEnvs ==
    {e \in [mkdtemp : {"ok", "fails"},
            extract : {"fails", "invalid", "full", "no description"},
            rmtree  : {"ok", "fails"},
            move    : {"ok", "fails", "partial"},
            cleanup : {"ok", "fails"}] :
        /\ e.mkdtemp = "fails" =>
              e.extract = "fails" /\ e.rmtree = "ok" /\ e.move = "ok"
              /\ e.cleanup = "ok"
        /\ e.extract \in {"fails", "invalid"} => e.rmtree = "ok" /\ e.move = "ok"
        /\ e.rmtree = "fails" => e.move = "ok"
        /\ e.rmtree = "ok" /\ e.move = "ok"
              /\ e.extract \in {"full", "no description"} => e.cleanup = "ok"}

Init ==
    /\ pc = "start"
    /\ config \in Configs
    /\ skill_ids \in {<<>>} \cup {<<s.id>> : s \in Skills}
    /\ skills = <<>>
    /\ force \in BOOLEAN /\ dry_run \in BOOLEAN
    /\ disk \in [Targets -> {Absent, OldDir}] /\ disk0 = disk
    /\ temps = {} /\ idx = 1 /\ stats = NoStats
    /\ skillMetadata = NoMetadataYet /\ outcome = <<>> /\ faults = {}
    /\ extractCalls = 0 /\ tempsCreated = 0 /\ exitCode = -1
    /\ regFile \in RunRegistries /\ backupFile = NoFile
    /\ regBefore = regFile /\ backupBefore = backupFile
    /\ updResult = NoCall /\ regWrites = 0 /\ nUpdates = 0
    /\ MergeIdle /\ RestIdle

\* [s for s in all_skills if s['id'] in skill_ids], all of them for None.
SkillsToFetch ==
    IF skill_ids = <<>> THEN config
    ELSE SelectSeq(config, LAMBDA s : s.id \in Range(skill_ids))

\* check_conflicts: the target folders that exist, unless force is set.
check_conflicts(to_fetch) ==
    {to_fetch[i].target_folder : i \in
        {j \in DOMAIN to_fetch :
            disk[to_fetch[j].target_folder].state /= "absent" /\ ~force}}

\* A return that reports success whatever happened.
ExitIgnoringCode(code) ==
    /\ pc' = "done"
    /\ exitCode' = 0

Exit(code) ==
    /\ pc' = "done"
    /\ exitCode' = code

\* run() up to the call of fetch_all_skills, and that call's first lines:
\* load_config, validate_environment, the filter by skill_ids,
\* check_conflicts, stats['total'].
RunStart ==
    /\ pc = "start"
    /\ \E env \in {"ok", "config unreadable", "base_dir unusable"} :
          IF env /= "ok"
          THEN /\ Exit(1)
               /\ faults' = {<<0, env>>}
               /\ UNCHANGED <<skills, stats>>
          ELSE IF skill_ids /= <<>> /\ SkillsToFetch = <<>>
          THEN Exit(1) /\ UNCHANGED <<skills, stats, faults>>
          ELSE IF check_conflicts(SkillsToFetch) /= {} /\ ~force
          THEN Exit(1) /\ skills' = SkillsToFetch /\ UNCHANGED <<stats, faults>>
          ELSE /\ skills' = SkillsToFetch
               /\ stats' = [stats EXCEPT !.total = Len(SkillsToFetch)]
               /\ pc' = IF SkillsToFetch = <<>> THEN "finish" ELSE "fetch"
               /\ UNCHANGED <<exitCode, faults>>
    /\ UNCHANGED <<config, skill_ids, force, dry_run, disk, disk0, temps, idx,
                   skillMetadata, outcome, extractCalls, tempsCreated,
                   mergeVars, regVars, restVars>>

\* One round of fetch_all_skills' loop: fetch_skill, and on success the
\* validation of the target folder that yields the skill's metadata.
LoopRound ==
    \E env \in FetchEnvs :
        LET skill_config == skills[idx]
            r == fetch_skill(skill_config, idx, env,
                     [disk |-> disk, stats |-> stats, temps |-> temps,
                      faults |-> faults, tempsCreated |-> tempsCreated,
                      extractCalls |-> extractCalls,
                      returned |-> "", state |-> ""])
            validation == validate_skill(r.disk[skill_config.target_folder])
        IN  /\ disk' = r.disk
            /\ stats' = r.stats
            /\ temps' = r.temps
            /\ faults' = r.faults
            /\ tempsCreated' = r.tempsCreated
            /\ extractCalls' = r.extractCalls
            /\ outcome' = Append(outcome,
                              [state |-> r.state, returned |-> r.returned])
            /\ skillMetadata' =
                  IF r.returned = "True" /\ validation.valid
                  THEN [id \in DOMAIN skillMetadata \cup {skill_config.id} |->
                          IF id = skill_config.id
                          THEN normalize_skill_metadata(skill_config,
                                                        validation.metadata)
                          ELSE skillMetadata[id]]
                  ELSE skillMetadata
            /\ IF r.returned = "raise"
               THEN pc' = "crashed" /\ exitCode' = 1 /\ UNCHANGED idx
               ELSE /\ idx' = idx + 1
                    /\ pc' = IF idx = Len(skills) THEN "finish" ELSE "fetch"
                    /\ UNCHANGED exitCode

\* A loop that updates the registry after every skill.
ProcessSkillThenUpdate ==
    /\ pc = "fetch"
    /\ LoopRound
    /\ IF DOMAIN skillMetadata' /= {} /\ regFile /= NoFile
       THEN ApplyUpdate(
                SelectSeq(config, LAMBDA s : s.id \in DOMAIN skillMetadata'),
                skillMetadata', [backup |-> "ok", write |-> "ok"])
       ELSE UNCHANGED regVars
    /\ UNCHANGED <<config, skill_ids, skills, force, dry_run, disk0, mergeVars,
                   restVars>>

\* fetch_all_skills' loop touches no registry file.
ProcessSkill ==
    /\ pc = "fetch"
    /\ LoopRound
    /\ UNCHANGED <<config, skill_ids, skills, force, dry_run, disk0,
                   mergeVars, regVars, restVars>>

\* update_marketplace: the skills of the configuration whose id has metadata
\* are handed, with the metadata, to update_marketplace_with_skills.
successful_skills == SelectSeq(config, LAMBDA s : s.id \in DOMAIN skillMetadata)

\* The rest of run(): the registry update when there is metadata and the
\* run is not a dry run, the report, the exit code.
RunFinish ==
    /\ pc = "finish"
    /\ IF DOMAIN skillMetadata /= {} /\ ~dry_run /\ regFile /= NoFile
       THEN \E env \in SaveEnvs :
               /\ env.backup = "fails" => env.write = "ok"
               /\ ApplyUpdate(successful_skills, skillMetadata, env)
       ELSE UNCHANGED regVars
    /\ Exit(IF stats.failed = 0 THEN 0 ELSE 1)
    /\ UNCHANGED <<config, skill_ids, skills, force, dry_run, disk, disk0,
                   temps, idx, stats, skillMetadata, outcome, faults,
                   extractCalls, tempsCreated, mergeVars, restVars>>

Next == RunStart \/ ProcessSkill \/ RunFinish

Spec == Init /\ [][Next]_vars

\* run() is one thread that executes its statements one after the other:
\* a step that can be taken is taken.
SpecLive == Spec /\ WF_vars(Next)

(***************************************************************************)
(* SpecFetch: the calls of one GitHubFetcher                               *)
(***************************************************************************)
RemoteFile(name) == [name |-> name, type |-> "file", children |-> <<>>]
RemoteDir(name, children) ==
    [name |-> name, type |-> "dir", children |-> children]

\* Listings of a directory with at most depth directories nested in it: a
\* file, a directory, or both in either order.
RECURSIVE Listings(_)
Listings(depth) ==
    IF depth = 0 THEN {<<>>, <<RemoteFile("f")>>}
    ELSE LET dirs == {RemoteDir("d", l) : l \in Listings(depth - 1)}
         IN  {<<>>, <<RemoteFile("f")>>}
             \cup {<<d>> : d \in dirs}
             \cup {<<RemoteFile("f"), d>> : d \in dirs}
             \cup {<<d, RemoteFile("f")>> : d \in dirs}

\* Answers of the rate_limit endpoint: a failure, a low quota that resets
\* later or has reset already, a quota just at and just under the mark.
QuotaResponses ==
    {RateFailure, Rate(5, 20), Rate(5, -3), Rate(9, 0), Rate(10, 20)}

InitFetch ==
    /\ gTree \in Listings(MaxDepth)
    /\ gFailAt \in 0 .. (2 * MaxDepth + 2)
    /\ gQuota \in SeqsUpTo(QuotaResponses, MaxCalls)
    /\ gClock = 0 /\ gLog = <<>> /\ gRequests = 0 /\ gStaged = {}
    /\ gOp = NoOp
    /\ MergeIdle /\ RegIdle /\ RunIdle /\ EntryIdle /\ UrlIdle
    /\ SkillIdle /\ ValIdle

\* The fetcher and its host as a method finds them.
Fetcher ==
    [quota |-> gQuota, clock |-> gClock, log |-> gLog,
     requests |-> gRequests, staged |-> gStaged, failAt |-> gFailAt]

\* The fetcher and its host as a method leaves them.
Left(st) ==
    /\ gQuota' = st.quota
    /\ gClock' = st.clock
    /\ gLog' = st.log
    /\ gRequests' = st.requests
    /\ gStaged' = st.staged

\* A call of wait_for_rate_limit_reset on its own.
WaitCall ==
    /\ gOp.name \in {"none", "wait"}
    /\ Len(gLog) < MaxCalls
    /\ Left(wait_for_rate_limit_reset(Fetcher))
    /\ gOp' = [name |-> "wait", ok |-> TRUE]
    /\ UNCHANGED <<gTree, gFailAt, mergeVars, regVars, runVars, entryVars,
                   urlVars, skillVars, valVars>>

\* fetch_subfolder on the remote directory.
FetchSubfolder ==
    /\ gOp.name \in {"none", "wait"}
    /\ \E r \in {fetch_subfolder(gTree, Fetcher)} :
          /\ Left(r.st)
          /\ gOp' = [name |-> "fetch_subfolder", ok |-> r.ok]
    /\ UNCHANGED <<gTree, gFailAt, mergeVars, regVars, runVars, entryVars,
                   urlVars, skillVars, valVars>>

\* fetch_standalone_repo on the remote repository.
FetchStandalone ==
    /\ gOp.name \in {"none", "wait"}
    /\ \E r \in {fetch_standalone_repo(gTree, Fetcher)} :
          /\ Left(r.st)
          /\ gOp' = [name |-> "fetch_standalone_repo", ok |-> r.ok]
    /\ UNCHANGED <<gTree, gFailAt, mergeVars, regVars, runVars, entryVars,
                   urlVars, skillVars, valVars>>

NextFetch == WaitCall \/ FetchSubfolder \/ FetchStandalone

SpecFetch == InitFetch /\ [][NextFetch]_vars

(***************************************************************************)
(* SpecUrl: parse_github_url on arbitrary paths                            *)
(***************************************************************************)
\* Pieces of a path: an empty piece, names, the marker and a branch name.
Segments == {"", "o", "r", "tree", "dev"}

InitUrl ==
    /\ uRaw \in SeqsUpTo(Segments, MaxSegments)
    /\ uResult = NotParsed
    /\ MergeIdle /\ RegIdle /\ RunIdle /\ EntryIdle /\ GhIdle
    /\ SkillIdle /\ ValIdle

ParseCall ==
    /\ ~uResult.called
    /\ uResult' = parse_github_url(uRaw)
    /\ UNCHANGED <<uRaw, mergeVars, regVars, runVars, entryVars, ghVars,
                   skillVars, valVars>>

NextUrl == ParseCall

SpecUrl == InitUrl /\ [][NextUrl]_vars

(***************************************************************************)
(* SpecSkillFetch: GitHubFetcher.fetch_skill on arbitrary URLs             *)
(***************************************************************************)
\* Paths without empty pieces: owner and repo names, the marker, a branch.
UrlPaths == SeqsUpTo({"o", "tree", "dev"}, MaxSegments)

InitSkillFetch ==
    /\ uRaw \in UrlPaths /\ uResult = NotParsed
    /\ sRepoType \in {"standalone", "multi_skill"}
    /\ sDefault \in {"fails", "main", "trunk"}
    /\ sFetch = NoFetch
    /\ gTree = <<RemoteFile("f")>>
    /\ gFailAt \in {0, 1}
    /\ gQuota = <<>> /\ gClock = 0 /\ gLog = <<>> /\ gRequests = 0
    /\ gStaged = {} /\ gOp = NoOp
    /\ MergeIdle /\ RegIdle /\ RunIdle /\ EntryIdle /\ ValIdle

FetchSkillCall ==
    /\ ~sFetch.called
    /\ \E r \in {fetcher_fetch_skill(uRaw, sRepoType, sDefault, gTree, Fetcher)} :
          /\ Left(r.st)
          /\ sFetch' = r.did
    /\ UNCHANGED <<gTree, gFailAt, gOp, sRepoType, sDefault, urlVars, mergeVars,
                   regVars, runVars, entryVars, valVars>>

NextSkillFetch == FetchSkillCall

SpecSkillFetch == InitSkillFetch /\ [][NextSkillFetch]_vars

(***************************************************************************)
(* SpecValidate: validate_skill on arbitrary paths                         *)
(***************************************************************************)
\* A path that is a plain file.
PlainFile == [state |-> "file", origin |-> "", manifest |-> NoManifest]

\* Manifests: sizes on both sides of the plausibility mark, a header that
\* parses or not, with or without name and description.  An empty file has
\* an empty header.
Manifests ==
    {m \in {Manifest(size, parses, name, description) :
                size \in {0, 20, MinPlausibleSize - 1, MinPlausibleSize, 100},
                parses \in BOOLEAN,
                name \in {None, "", "n"},
                description \in {None, "", "md"}} :
        m.size = 0 => m.parses /\ m.name = None /\ m.description = None}

ValidatedPaths ==
    {Absent, PlainFile}
    \cup {Dir(origin, m) : origin \in {"old", "a"},
                           m \in Manifests \cup {NoManifest}}

InitValidate ==
    /\ vDir \in ValidatedPaths
    /\ vResult = NotValidated
    /\ MergeIdle /\ RegIdle /\ RunIdle /\ EntryIdle /\ GhIdle /\ UrlIdle
    /\ SkillIdle

ValidateCall ==
    /\ ~vResult.called
    /\ \E r \in {validate_skill(vDir)} :
          vResult' = [called |-> TRUE, valid |-> r.valid, errors |-> r.errors,
                      warnings |-> r.warnings, metadata |-> r.metadata]
    /\ UNCHANGED <<vDir, mergeVars, regVars, runVars, entryVars, ghVars,
                   urlVars, skillVars>>

NextValidate == ValidateCall

SpecValidate == InitValidate /\ [][NextValidate]_vars

(***************************************************************************)
(* SpecEntries: the entries one update builds from its arguments           *)
(***************************************************************************)
\* Metadata mappings: any set of ids as keys, a description or '' for each.
MetadataMaps ==
    UNION {{[id \in D |-> Metadata(id, f[id])] : f \in [D -> {"md", ""}]} :
              D \in SUBSET {s.id : s \in Skills}}

InitEntries ==
    /\ eConfigs \in Configs
    /\ eMetadata \in MetadataMaps
    /\ eBuilt = <<>> /\ eCalled = FALSE
    /\ regFile \in RunRegistries /\ backupFile = NoFile
    /\ regBefore = regFile /\ backupBefore = backupFile
    /\ updResult = NoCall /\ regWrites = 0 /\ nUpdates = 0
    /\ MergeIdle /\ RunIdle /\ GhIdle /\ UrlIdle /\ SkillIdle /\ ValIdle

\* One call of update_marketplace_with_skills.
BuildCall ==
    /\ ~eCalled
    /\ eCalled' = TRUE
    /\ eBuilt' = BuiltEntries(regFile, eConfigs, eMetadata)
    /\ ApplyUpdate(eConfigs, eMetadata, [backup |-> "ok", write |-> "ok"])
    /\ UNCHANGED <<eConfigs, eMetadata, mergeVars, runVars, ghVars, urlVars, skillVars, valVars>>

NextEntries == BuildCall

SpecEntries == InitEntries /\ [][NextEntries]_vars

(***************************************************************************)
(* Claims about merge_plugins (SpecMerge)                                  *)
(***************************************************************************)
NamesOf(plugins) == {plugins[i].name : i \in DOMAIN plugins}

TruthyNamesOf(plugins) == {n \in NamesOf(plugins) : Truthy(n)}

MergeCalled == mChain /= <<>>

\* C1 as stated: every name that occurs in the existing list is the name of
\* an output entry, and that entry is one of the existing list; an entry that
\* is not of the existing list is an incoming one whose name does not occur
\* in the existing list.
C1_ExistingWins_AsStated ==
    MergeCalled =>
        /\ \A n \in NamesOf(mExisting) :
              \E i \in DOMAIN mOut :
                 mOut[i].name = n /\ mOut[i] \in Range(mExisting)
        /\ \A i \in DOMAIN mOut :
              mOut[i] \notin Range(mExisting) =>
                 /\ mOut[i] \in Range(mIncoming)
                 /\ mOut[i].name \notin NamesOf(mExisting)

\* C1 amended: every NON-EMPTY name that occurs in the existing list is the
\* name of exactly the output entries taken from the existing list, never of
\* an incoming one; an incoming entry is in the output only if its name does
\* not occur in the existing list; entries without a name are in no output.
C1_ExistingWins ==
    MergeCalled =>
        /\ \A n \in TruthyNamesOf(mExisting) :
              /\ \E i \in DOMAIN mOut : mOut[i].name = n
              /\ \A i \in DOMAIN mOut :
                    mOut[i].name = n => mOut[i] \in Range(mExisting)
        /\ \A i \in DOMAIN mOut :
              /\ Truthy(mOut[i].name)
              /\ mOut[i] \notin Range(mExisting) =>
                    /\ mOut[i] \in Range(mIncoming)
                    /\ mOut[i].name \notin NamesOf(mExisting)

\* A merge in which both lists hold the same name with different content, and
\* the existing list also holds an incoming-free name.
C1_Witness ==
    /\ MergeCalled
    /\ \E i \in DOMAIN mExisting : \E j \in DOMAIN mIncoming :
          /\ Truthy(mExisting[i].name)
          /\ mExisting[i].name = mIncoming[j].name
          /\ mExisting[i] /= mIncoming[j]
          /\ mIncoming[j] \notin Range(mExisting)
    /\ \E j \in DOMAIN mIncoming : mIncoming[j] \in Range(mOut)

\* C3: the list merge_plugins returns is in ascending lexicographic order
\* of name, whatever the order of the two input lists.
C3_SortedByName ==
    MergeCalled =>
        \A i, j \in DOMAIN mOut :
            i < j => ~StrLess(mOut[j].name, mOut[i].name)

\* A merge whose inputs are not in order and whose output has three names,
\* one of them a proper prefix of another.
C3_Witness ==
    /\ MergeCalled
    /\ Len(mOut) >= 3
    /\ \E i, j \in DOMAIN mExisting :
          i < j /\ StrLess(mExisting[j].name, mExisting[i].name)
    /\ \E i \in DOMAIN mIncoming : \E j \in DOMAIN mExisting :
          Truthy(mIncoming[i].name)
          /\ StrLess(mIncoming[i].name, mExisting[j].name)

\* C4 as stated: merging a list with itself yields the set of names of the
\* list, and merging A, B, A in turn from [] yields what merging A, B yields.
C4_Idempotent_AsStated ==
    /\ mChain = <<"raw">> /\ mExisting = mIncoming =>
          NamesOf(mOut) = NamesOf(mExisting)
    /\ mChain = <<"A", "B", "A">> => mOut = mPrevOut

\* C4 amended: merging a list with itself yields the set of the NON-EMPTY
\* names of the list, and merging A, B, A in turn from [] yields exactly what
\* merging A, B yields.
C4_Idempotent ==
    /\ mChain = <<"raw">> /\ mExisting = mIncoming =>
          NamesOf(mOut) = TruthyNamesOf(mExisting)
    /\ mChain = <<"A", "B", "A">> => mOut = mPrevOut

\* A, B, A merged in turn, A and B disagreeing about a name and B bringing
\* a name of its own.
C4_Witness ==
    /\ mChain = <<"A", "B", "A">>
    /\ \E i \in DOMAIN mA : \E j \in DOMAIN mB :
          Truthy(mA[i].name) /\ mA[i].name = mB[j].name /\ mA[i] /= mB[j]
    /\ TruthyNamesOf(mB) \ NamesOf(mA) /= {}

(***************************************************************************)
(* Claims about update_marketplace_with_skills (SpecUpdate)                *)
(***************************************************************************)
NoTwoShareAName(plugins) ==
    \A i, j \in DOMAIN plugins : plugins[i].name = plugins[j].name => i = j

\* C2: once the program has written the registry, no two entries of the
\* persisted plugins list share a name, whatever registry it started from
\* and however many updates followed.
C2_UniqueNames ==
    regWrites > 0 /\ regFile.kind = "doc" => NoTwoShareAName(regFile.plugins)

\* A successful update of a registry in which a name occurred twice, which
\* leaves at least two entries.
C2_Witness ==
    /\ updResult.called /\ updResult.ok
    /\ ~NoTwoShareAName(regBefore.plugins)
    /\ Len(regFile.plugins) >= 2

\* The registry the update found cannot be loaded.
Unloadable(file) == file.kind /= "doc"

\* The entry that the merge keeps for the name of plugins[i]: the last one.
KeptByMerge(plugins, i) ==
    /\ Truthy(plugins[i].name)
    /\ \A j \in DOMAIN plugins : plugins[j].name = plugins[i].name => j <= i

\* The merged document cannot pass the schema: a required top-level key is
\* missing, or an entry the merge keeps lacks a required key.
MergedInvalid(file) ==
    \/ file.top /= "ok"
    \/ \E i \in DOMAIN file.plugins :
          /\ KeptByMerge(file.plugins, i)
          /\ None \in {file.plugins[i].description, file.plugins[i].source,
                       file.plugins[i].category}

\* C6: when the registry cannot be loaded, or the merged document fails the
\* schema, the update returns failure and leaves the registry file and the
\* backup file as they were.
C6_NoWriteOnLoadOrSchemaFailure ==
    updResult.called /\ (Unloadable(regBefore) \/ MergedInvalid(regBefore)) =>
        /\ ~updResult.ok
        /\ regFile = regBefore
        /\ backupFile = backupBefore

\* An update that found a loadable registry with an entry the schema rejects,
\* an earlier backup lying beside it, and the environment ready to save.
C6_Witness ==
    /\ updResult.called /\ ~updResult.ok
    /\ ~Unloadable(regBefore) /\ regBefore.top = "ok"
    /\ MergedInvalid(regBefore)
    /\ backupBefore = OldBackup
    /\ updResult.backup = "ok" /\ updResult.write = "ok"

\* C7: whenever an update has changed the registry file, the backup holds
\* what the registry file held when the update began; after a successful
\* update it does so in any case; and when the copy to the backup failed the
\* registry file is as it was.
C7_BackupBeforeWrite ==
    updResult.called =>
        /\ regFile /= regBefore => backupFile = regBefore
        /\ updResult.ok => backupFile = regBefore
        /\ updResult.backup = "fails" => regFile = regBefore

\* A successful update that changed the registry and replaced an earlier backup.
C7_Witness ==
    /\ updResult.called /\ updResult.ok
    /\ regFile /= regBefore
    /\ backupBefore = OldBackup
    /\ backupFile = regBefore

(***************************************************************************)
(* Claims about a run of the fetcher (Spec)                                *)
(***************************************************************************)
Terminal == {"fetched-and-registered", "skipped-exists", "failed"}

Ended(state, returned) == [state |-> state, returned |-> returned]

\* C5: the registry file is written at most once in a run; while a skill is
\* still waiting to be processed no update has been attempted and nothing
\* has been written; and once it is written every requested skill has ended
\* as fetched, skipped or failed.
C5_RegistryWrittenOnceAtEnd ==
    /\ regWrites <= 1
    /\ pc \in {"start", "fetch", "finish"} => regWrites = 0 /\ ~updResult.called
    /\ regWrites > 0 =>
          /\ Len(outcome) = Len(skills)
          /\ \A i \in DOMAIN outcome : outcome[i].state \in Terminal

\* A finished run of two skills, one failed and one fetched, that wrote the
\* registry.
C5_Witness ==
    /\ pc = "done" /\ regWrites = 1
    /\ {outcome[i].state : i \in DOMAIN outcome} =
          {"failed", "fetched-and-registered"}

\* The skill about to be processed has its target folder and force is off.
SkipCase ==
    /\ pc = "fetch"
    /\ disk[skills[idx].target_folder].state /= "absent"
    /\ ~force

\* C8: when the target folder of the skill exists and force is off, its
\* processing ends as skipped-exists and returns success, calls no
\* extractor, creates no temporary directory, leaves every folder as it
\* was, and changes no counter but skipped, which grows by one.
C8_SkipWhenExists ==
    [][SkipCase =>
          /\ outcome' = Append(outcome, Ended("skipped-exists", "True"))
          /\ extractCalls' = extractCalls
          /\ tempsCreated' = tempsCreated
          /\ temps' = temps
          /\ disk' = disk
          /\ stats' = [stats EXCEPT !.skipped = @ + 1]]_vars

\* A skill was skipped, with force off, after another one had been fetched
\* into the folder both of them name.
C8_Witness ==
    /\ ~force
    /\ \E i \in DOMAIN outcome : outcome[i].state = "skipped-exists"
    /\ stats.skipped = 1 /\ extractCalls = 1 /\ stats.successful = 1

\* The run of the scenario: skills A and B, no filter, force off, the folder
\* of A present and the folder of B absent at the start, and nothing made
\* to fail by the environment or by the validator.
C9_Scenario ==
    /\ config = <<SkA, SkB>> /\ skill_ids = <<>>
    /\ ~force /\ ~dry_run
    /\ disk0["ta"] = OldDir /\ disk0["tb"] = Absent
    /\ faults = {}
    /\ stats.errors = <<>>

\* C9 as stated: the run of the scenario ends with A skipped and B fetched,
\* and reports total = 2, successful = 2, failed = 0.
C9_SkipThenFetch_AsStated ==
    pc \in {"done", "crashed"} /\ C9_Scenario =>
        /\ Len(outcome) = 2
        /\ outcome[1].state = "skipped-exists"
        /\ outcome[2].state = "fetched-and-registered"
        /\ stats.total = 2 /\ stats.successful = 2 /\ stats.failed = 0

\* The registry file the run found.
InitialRegistry == IF updResult.called THEN regBefore ELSE regFile

\* Every entry of the registry file under this name was there at the start.
UntouchedInRegistry(name) ==
    \A e \in Range(regFile.plugins) :
        e.name = name => e \in Range(InitialRegistry.plugins)

\* The processing step in which the extraction of the skill fails.
ExtractionFails == pc = "fetch" /\ <<idx, "extract">> \in faults'

\* What that step does to the outcome, the counters and the metadata.
RecordedAsFailed ==
    /\ outcome' = Append(outcome, Ended("failed", "False"))
    /\ stats'.failed = stats.failed + 1
    /\ stats'.errors =
          Append(stats.errors, <<skills[idx].id, "GitHub fetch failed">>)
    /\ stats'.successful = stats.successful
    /\ skillMetadata' = skillMetadata

Staged(i) == outcome[i].state \in {"fetched-and-registered", "failed"}

ReplacesTarget ==
    /\ pc = "fetch" /\ force /\ ~dry_run
    /\ disk[skills[idx].target_folder].state /= "absent"
    /\ <<idx, "mkdtemp">> \notin faults'
    /\ \A cause \in {"GitHub fetch failed", "Validation failed"} :
          <<skills[idx].id, cause>> \notin Range(stats'.errors)

\* The folder holds the complete content fetched for the skill.
NewContent(dir, skill_id) ==
    dir.state = "dir" /\ dir.origin = skill_id /\ validate_skill(dir).valid

\* C12 as stated: when a skill validates and its target folder exists, the
\* folder holds after the processing either what it held before or the
\* complete new content, whatever fails between the removal and the move.
C12_AtomicReplace_AsStated ==
    [][ReplacesTarget =>
          \/ disk'[skills[idx].target_folder] = disk[skills[idx].target_folder]
          \/ NewContent(disk'[skills[idx].target_folder], skills[idx].id)]_vars

\* The step in which processing a skill raises an error: mkdtemp, the
\* fetch, the removal of the target or the move fails, or the validation
\* rejects the fetched content.
ErrorRaised ==
    /\ pc = "fetch"
    /\ \/ \E step \in {"mkdtemp", "extract", "rmtree", "move"} :
             <<idx, step>> \in faults'
       \/ <<skills[idx].id, "Validation failed">> \in Range(stats'.errors)

\* C13 as stated: every error raised while a skill is processed becomes one
\* entry of the statistics, failed grown by one and one message appended,
\* and the loop over the skills goes on.
C13_ErrorContainment_AsStated ==
    [][ErrorRaised =>
          /\ stats'.failed = stats.failed + 1
          /\ Len(stats'.errors) = Len(stats.errors) + 1
          /\ pc' \in {"fetch", "finish"}]_vars

\* The run returned before fetch_all_skills: the configuration or the
\* output directory was unusable, no skill matched the requested ids, or a
\* target folder existed and force was off.
EndedBeforeFetching ==
    \/ \E f \in faults : f[1] = 0
    \/ skill_ids /= <<>> /\ SkillsToFetch = <<>>
    \/ /\ ~force
       /\ \E i \in DOMAIN SkillsToFetch :
             disk0[SkillsToFetch[i].target_folder].state /= "absent"

NoneFailed == \A i \in DOMAIN outcome : outcome[i].state /= "failed"

\* C14 as stated: a run exits with code 0 exactly when no requested skill
\* ended as failed.
C14_ExitCode_AsStated ==
    pc \in {"done", "crashed"} => (exitCode = 0 <=> NoneFailed)

\* C14: a run that returns exits with code 0 exactly when it got as far as
\* fetching and no skill ended as failed; a run that an error escaped from
\* does not exit with code 0.
C14_ExitCode ==
    /\ pc = "done" => (exitCode = 0 <=> ~EndedBeforeFetching /\ NoneFailed)
    /\ pc = "crashed" => exitCode /= 0

\* A run of two skills that exits with code 0 although the registry update
\* it attempted failed.
C14_Witness ==
    /\ pc = "done" /\ exitCode = 0
    /\ Len(outcome) = 2
    /\ updResult.called /\ ~updResult.ok

(***************************************************************************)
(* Claims about the entries an update builds (SpecEntries)                 *)
(***************************************************************************)
\* The update was called on a registry it could load.
BuiltFromLoaded == eCalled /\ regBefore.kind = "doc"

\* The entry the claim describes for a config.
DescribedEntry(c) ==
    [name        |-> c.id,
     description |-> IF c.id \in DOMAIN eMetadata
                        /\ eMetadata[c.id].description /= ""
                     THEN eMetadata[c.id].description
                     ELSE IF c.description = None THEN "" ELSE c.description,
     source      |-> IF c.target_folder = "ta" THEN "./ta" ELSE "./tb",
     category    |-> IF c.category = None THEN "development" ELSE c.category]

\* C15 as stated: an entry is built for a config exactly when the config's
\* id is a key of the metadata mapping, and every entry built is the one
\* described.
C15_EntriesBuilt_AsStated ==
    BuiltFromLoaded =>
        /\ \A i \in DOMAIN eConfigs :
              (\E e \in Range(eBuilt) : e.name = eConfigs[i].id)
                  <=> eConfigs[i].id \in DOMAIN eMetadata
        /\ \A e \in Range(eBuilt) :
              \E i \in DOMAIN eConfigs : e = DescribedEntry(eConfigs[i])

\* C15: an entry is built for every config handed in, whether or not its
\* id is a key of the metadata mapping, in the order of the configs, and
\* every entry built is the one described.
C15_EntriesBuilt ==
    BuiltFromLoaded =>
        /\ Len(eBuilt) = Len(eConfigs)
        /\ \A i \in DOMAIN eConfigs : eBuilt[i] = DescribedEntry(eConfigs[i])

\* A call with two configs: one has metadata with a description, the other,
\* which has neither description nor category, has metadata with an empty
\* description.
C15_Witness ==
    /\ BuiltFromLoaded /\ Len(eBuilt) = 2
    /\ \E i, j \in DOMAIN eConfigs :
          /\ eConfigs[i].id \in DOMAIN eMetadata
          /\ eMetadata[eConfigs[i].id].description = "md"
          /\ eBuilt[i].description = "md"
          /\ eConfigs[j] = SkB /\ "b" \in DOMAIN eMetadata
          /\ eMetadata["b"].description = ""
          /\ eBuilt[j].category = "development"

(***************************************************************************)
(* Claims about the GitHubFetcher (SpecFetch)                              *)
(***************************************************************************)
ContentRequests == {"archive", "list", "file"}

\* C16 as stated: in either strategy every request for the archive, for a
\* listing or for a file comes right after a call of
\* wait_for_rate_limit_reset of its own.
C16_ThrottleBeforeRequest_AsStated ==
    \A i \in DOMAIN gLog :
        gLog[i].ev \in ContentRequests =>
            i > 1 /\ gLog[i - 1].ev = "throttle"

\* The calls of wait_for_rate_limit_reset made so far.
Throttles == {i \in DOMAIN gLog : gLog[i].ev = "throttle"}

\* C17: a call of wait_for_rate_limit_reset that is told remaining < 10
\* sleeps max(0, reset - now) + 5 seconds, so it returns no earlier than 5
\* seconds after the reset time (25 seconds for remaining 5 and a reset 20
\* seconds ahead); told remaining >= 10 it returns without sleeping.
C17_SleepsUntilResetPlusFive ==
    \A i \in Throttles :
        LET call == gLog[i]
            ahead == IF call.response.reset > call.at
                     THEN call.response.reset - call.at ELSE 0
        IN  call.response.ok =>
               /\ call.response.remaining < 10 =>
                     /\ call.until = call.at + ahead + 5
                     /\ call.until >= call.response.reset + 5
               /\ call.response = Rate(5, 20) /\ call.at = 0 =>
                     call.until >= 25
               /\ call.response.remaining >= 10 => call.until = call.at

\* Two calls in a row: the first, told remaining 5 and a reset 20 seconds
\* ahead, returned 25 seconds later; the second, told a low quota whose
\* reset time had passed, returned 5 seconds after it was entered.
C17_Witness ==
    /\ Len(gLog) >= 2
    /\ gLog[1] = Throttle(Rate(5, 20), 0, 25)
    /\ gLog[2].ev = "throttle" /\ gLog[2].response.ok
    /\ gLog[2].response.remaining < 10
    /\ gLog[2].response.reset < gLog[2].at
    /\ gLog[2].until = gLog[2].at + 5

\* C18: a call of wait_for_rate_limit_reset whose quota request fails
\* returns at once, at whatever place in a sequence of calls, and the
\* clock stands where the sleeps of the other calls have left it.
C18_FailedCheckNeverBlocks ==
    /\ \A i \in Throttles : ~gLog[i].response.ok => gLog[i].until = gLog[i].at
    /\ \A i \in DOMAIN gLog : gLog[i].at <= gLog[i].until /\ gLog[i].until <= gClock
    /\ (\A i \in Throttles : ~gLog[i].response.ok) => gClock = 0

\* A traversal that succeeded after the quota request had failed before
\* the listing and before the download of a file.
C18_Witness ==
    /\ gOp = [name |-> "fetch_subfolder", ok |-> TRUE]
    /\ Cardinality(Throttles) >= 2
    /\ \A i \in Throttles : ~gLog[i].response.ok
    /\ gStaged /= {}

\* C19 as stated: when a listing or a download fails anywhere in the
\* traversal, fetch_subfolder returns False.
C19_NestedFailureReported_AsStated ==
    gOp.name = "fetch_subfolder" /\ gFailAt \in 1 .. gRequests => ~gOp.ok

(***************************************************************************)
(* Claims about parse_github_url (SpecUrl)                                 *)
(***************************************************************************)
\* The non-empty pieces of the path, in order.
RECURSIVE NonEmpty(_)
NonEmpty(raw) ==
    IF raw = <<>> THEN <<>>
    ELSE IF Head(raw) = "" THEN NonEmpty(Tail(raw))
    ELSE <<Head(raw)>> \o NonEmpty(Tail(raw))

\* C20: for a path with at least two non-empty segments the call returns
\* the first as owner and the second as repo, both non-empty; for a path
\* with fewer it raises and returns nothing.
C20_OwnerAndRepo ==
    uResult.called =>
        IF Len(NonEmpty(uRaw)) >= 2
        THEN /\ ~uResult.raised
             /\ uResult.owner = NonEmpty(uRaw)[1] /\ uResult.owner /= ""
             /\ uResult.repo = NonEmpty(uRaw)[2] /\ uResult.repo /= ""
        ELSE uResult = InvalidUrl

\* A parsed path with an empty piece before the owner and another between
\* owner and repo.
C20_Witness ==
    /\ uResult.called /\ ~uResult.raised
    /\ Len(uRaw) >= 4 /\ uRaw[1] = "" /\ uRaw[2] = "o" /\ uRaw[3] = ""
    /\ uResult.owner = "o" /\ uResult.repo = "r"

\* The path has the marker as third segment and a branch after it.
HasTreePattern(parts) == Len(parts) >= 4 /\ parts[3] = "tree"

\* C21: for a path whose third segment is "tree" with a segment after it,
\* the call returns that segment as branch and the segments after it,
\* joined, as subpath: each piece non-empty, so no '/' at either end, and
\* no subpath when no segment is left; for any other path it returns
\* branch "main" and no subpath.
C21_BranchAndSubpath ==
    uResult.called /\ ~uResult.raised =>
        LET parts == NonEmpty(uRaw)
            rest  == [i \in 1 .. Len(parts) - 4 |-> parts[i + 4]]
        IN  IF HasTreePattern(parts)
            THEN /\ uResult.branch = parts[4]
                 /\ IF rest = <<>> THEN uResult.subfolder_path.none
                    ELSE /\ ~uResult.subfolder_path.none
                         /\ uResult.subfolder_path.parts = rest
                         /\ \A i \in DOMAIN rest : rest[i] /= ""
            ELSE /\ uResult.branch = "main"
                 /\ uResult.subfolder_path.none

\* A parsed path with branch dev and a subpath of two segments.
C21_Witness ==
    /\ uResult.called /\ ~uResult.raised
    /\ uResult.branch = "dev"
    /\ ~uResult.subfolder_path.none
    /\ Len(uResult.subfolder_path.parts) = 2

(***************************************************************************)
(* Claims about GitHubFetcher.fetch_skill (SpecSkillFetch)                 *)
(***************************************************************************)
\* The call was made on a URL that names an owner and a repository.
FetchedFromUrl == sFetch.called /\ Len(NonEmpty(uRaw)) >= 2

\* C22: for a URL without the tree/<branch> pattern the fetch uses the
\* branch the repository endpoint reports, and "main" when that request
\* fails; when nothing but that request fails the fetch succeeds.
C22_DefaultBranch ==
    FetchedFromUrl /\ ~HasTreePattern(NonEmpty(uRaw)) =>
        /\ sFetch.queried
        /\ sDefault /= "fails" => sFetch.branch = sDefault
        /\ sDefault = "fails" => sFetch.branch = "main"
        /\ sDefault = "fails" /\ gFailAt = 0 => sFetch.ok

\* A fetch of a URL without the pattern that succeeded on branch main after
\* the request for the default branch had failed.
C22_Witness ==
    /\ FetchedFromUrl /\ ~HasTreePattern(NonEmpty(uRaw))
    /\ sDefault = "fails" /\ sFetch.branch = "main" /\ sFetch.ok
    /\ gStaged /= {}

\* C28 as stated: a URL with the tree/<branch> pattern is fetched on that
\* branch, with or without a subpath after it, and the default branch is
\* asked for only when the URL has no such pattern.
C28_ExplicitBranch_AsStated ==
    FetchedFromUrl =>
        /\ HasTreePattern(NonEmpty(uRaw)) =>
              sFetch.branch = NonEmpty(uRaw)[4]
        /\ sFetch.queried => ~HasTreePattern(NonEmpty(uRaw))

(***************************************************************************)
(* Claims about validate_skill (SpecValidate)                              *)
(***************************************************************************)
\* The path validated is a directory with a manifest.
HasManifest == vDir.state = "dir" /\ vDir.manifest.exists

\* C23: the result is valid exactly when its list of errors is empty,
\* however many warnings it has; a directory whose manifest has zero bytes
\* is invalid.
C23_ValidIffNoErrors ==
    vResult.called =>
        /\ vResult.valid <=> vResult.errors = <<>>
        /\ HasManifest /\ vDir.manifest.size = 0 => ~vResult.valid

\* A valid result with three warnings.
C23_Witness ==
    /\ vResult.called /\ vResult.valid
    /\ Len(vResult.warnings) = 3

\* C24 as stated: a manifest whose header cannot be parsed makes the result
\* invalid, with an error.
C24_ParseFailureFatal_AsStated ==
    vResult.called /\ HasManifest /\ ~vDir.manifest.parses =>
        ~vResult.valid /\ vResult.errors /= <<>>

\* C25 as stated: the metadata of every result is a mapping, and the empty
\* one when the header could not be parsed.
C25_MetadataNeverNull_AsStated ==
    vResult.called =>
        /\ ~vResult.metadata.is_none
        /\ HasManifest /\ ~vDir.manifest.parses =>
              vResult.metadata = EmptyHeader

\* C25: the metadata of a result is a mapping exactly when the manifest was
\* found, and then the empty one when the header could not be parsed; it is
\* None when the directory is missing, the path is no directory or the
\* manifest is missing.
C25_MetadataNeverNull ==
    vResult.called =>
        /\ vResult.metadata.is_none <=> ~HasManifest
        /\ HasManifest /\ ~vDir.manifest.parses =>
              vResult.metadata = EmptyHeader

\* A result for a manifest whose header could not be parsed: valid, with
\* the empty mapping as metadata.
C25_Witness ==
    /\ vResult.called /\ HasManifest /\ ~vDir.manifest.parses
    /\ vResult.valid /\ vResult.metadata = EmptyHeader

\* The header of the manifest has a name and no description.
NameWithoutDescription ==
    /\ HasManifest /\ vDir.manifest.parses
    /\ vDir.manifest.name = "n" /\ vDir.manifest.description = None

\* C26 as stated: a manifest whose header has a name and no description
\* gives a valid result with one warning, about the description.
C26_OneWarning_AsStated ==
    vResult.called /\ NameWithoutDescription =>
        /\ vResult.valid
        /\ vResult.warnings = <<"Missing 'description' in frontmatter">>

\* C26: a manifest whose header has a name and no description gives a valid
\* result whose first warning is about the description; it is the only
\* one when the manifest has 50 bytes or more, and a manifest under 50
\* bytes adds a second, about its size.
C26_OneWarning ==
    vResult.called /\ NameWithoutDescription =>
        /\ vResult.valid
        /\ vResult.warnings =
              IF vDir.manifest.size >= 50
              THEN <<"Missing 'description' in frontmatter">>
              ELSE <<"Missing 'description' in frontmatter",
                     "SKILL.md is very small">>

\* A result for a manifest of 50 bytes with a name and no description.
C26_Witness ==
    /\ vResult.called /\ NameWithoutDescription
    /\ vDir.manifest.size = 50
    /\ Len(vResult.warnings) = 1

(***************************************************************************)
(* Claims about dry runs, the batch and the loop (Spec, SpecLive)          *)
(***************************************************************************)
\* C27: a dry run writes nothing: every target folder is as the run found
\* it, no temporary directory was created, the fetcher was never invoked,
\* and neither the registry file nor its backup was written.
C27_DryRunWritesNothing ==
    dry_run =>
        /\ disk = disk0
        /\ temps = {} /\ tempsCreated = 0
        /\ extractCalls = 0
        /\ ~updResult.called /\ regWrites = 0
        /\ regFile = regBefore /\ backupFile = NoFile

\* A dry run over two skills, forced over an existing folder, that ended
\* with metadata collected and a registry file present.
C27_Witness ==
    /\ dry_run /\ force /\ pc = "done"
    /\ Len(outcome) = 2
    /\ \A i \in DOMAIN outcome : outcome[i].state = "dry-run"
    /\ DOMAIN skillMetadata /= {}
    /\ regFile /= NoFile

\* The ids of the skills that ended as fetched-and-registered.
FetchedIds ==
    {skills[i].id : i \in {j \in DOMAIN outcome :
                              outcome[j].state = "fetched-and-registered"}}

\* C29 as stated: the skills and the metadata handed to
\* update_marketplace_with_skills are those of the skills that ended as
\* fetched-and-registered, and of no other.
C29_BatchIsFetched_AsStated ==
    updResult.called =>
        /\ {s.id : s \in Range(successful_skills)} = FetchedIds
        /\ DOMAIN skillMetadata = FetchedIds

\* C30 as stated: once the loop over the skills has started, the run comes
\* to its end with every skill processed once, in order, each in one of the
\* terminal states.
C30_EveryPackageProcessed_AsStated ==
    (pc = "fetch" /\ ~dry_run) ~>
        /\ pc = "done"
        /\ Len(outcome) = Len(skills)
        /\ \A i \in DOMAIN outcome : outcome[i].state \in Terminal

(***************************************************************************)
(* Claims about the target folder and the statistics (Spec)                *)
(***************************************************************************)
\* The step that processes a skill and ends with the error cause.
FailsWith(cause) ==
    /\ pc = "fetch"
    /\ stats'.errors = Append(stats.errors, <<skills[idx].id, cause>>)

\* The step that processes a skill fetched its content and validated it.
ValidatedStagedCopy ==
    /\ pc = "fetch"
    /\ extractCalls' = extractCalls + 1
    /\ ~FailsWith("GitHub fetch failed")
    /\ ~FailsWith("Validation failed")

\* C31: when the fetch or the validation of a skill fails, every target
\* folder is after the processing what it was before, with force too; and
\* a target folder changes only in a step whose staged copy was fetched
\* and validated.
C31_TargetUntouched ==
    [][/\ FailsWith("GitHub fetch failed") \/ FailsWith("Validation failed")
             => disk' = disk
       /\ disk' /= disk => ValidatedStagedCopy]_vars

\* A forced run in which the fetch of one skill failed and the validation
\* of another did, both over folders that existed and still hold what they
\* held.
C31_Witness ==
    /\ force /\ pc = "done" /\ Len(outcome) = 2
    /\ {stats.errors[i][2] : i \in DOMAIN stats.errors} =
          {"GitHub fetch failed", "Validation failed"}
    /\ \A t \in Targets : disk0[t] = OldDir /\ disk[t] = OldDir

\* The skills counted by the statistics.
Counted == stats.successful + stats.failed + stats.skipped

\* C32 as stated: in a run that is no dry run, the three counters add up
\* to the number of skills processed so far, and to total once the loop
\* over the skills has ended; the list of errors is as long as failed; and
\* no counter ever decreases.
C32_StatsConservation_AsStated ==
    /\ [](~dry_run =>
            /\ Counted = Len(outcome)
            /\ Len(stats.errors) = stats.failed
            /\ pc \in {"finish", "done", "crashed"} => stats.total = Counted)
    /\ [][/\ stats'.total >= stats.total
          /\ stats'.successful >= stats.successful
          /\ stats'.failed >= stats.failed
          /\ stats'.skipped >= stats.skipped]_vars

=============================================================================
